---- MODULE Spec2Model ----
(***************************************************************************)
(* shadir (src/main.go): a walker thread (filepath.Walk inside             *)
(* walkDirectory) submits one worker per eligible entry to an errgroup     *)
(* whose limit is -poolsize; workers share the hardLinks sync.Map, print   *)
(* result lines to stdout and return their open/read error to the group.   *)
(*                                                                         *)
(* The file system is one device (an inode number names one file).  The    *)
(* tree that is walked is                                                  *)
(*     /r  /r/a  /r/b  /r/d  /r/d/a  /r/l  /r/s                            *)
(* with r, d directories, a, b, d/a regular files, l a symbolic link and   *)
(* s a socket or a second name of l.  Which names are hard links, the link *)
(* text of l, the working directory and the command-line flags are         *)
(* chosen in Init; failures of system calls (lstat, readdir, readlink,     *)
(* open, read, getwd) are chosen when the call is made, at most MaxFaults  *)
(* of them in one run.                                                     *)
(***************************************************************************)
EXTENDS Integers, Sequences, FiniteSets, Bags, TLC

\* ---- bounds ------------------------------------------------------------
\* -poolsize ranges over 0..MaxPoolSize (0: no limit is set)
MaxPoolSize == 2
\* at most this many system calls fail in one run
MaxFaults == 1

\* ---- the tree ----------------------------------------------------------
\* A path is the sequence of its components below "/".
Root == <<"r">>
PA == <<"r", "a">>
PB == <<"r", "b">>
PD == <<"r", "d">>
PDA == <<"r", "d", "a">>
PL == <<"r", "l">>
PS == <<"r", "s">>

\* filepath.Walk visits in lexical pre-order (readDirNames sorts the names).
WalkOrder == <<Root, PA, PB, PD, PDA, PL, PS>>
Paths == {WalkOrder[i] : i \in DOMAIN WalkOrder}
NoPath == <<>>

IsPrefix(d, p) == Len(d) <= Len(p) /\ SubSeq(p, 1, Len(d)) = d
Parent(p) == SubSeq(p, 1, Len(p) - 1)

\* A path string as the program holds it: absolute, or relative.
AbsText(p) == [abs |-> TRUE, comps |-> p]
RelText(p) == [abs |-> FALSE, comps |-> p]
NoText == [abs |-> FALSE, comps |-> <<>>]

\* what os.Readlink returns for /r/l: "/r/a", "a" (relative to /r), "/r/x" (dangling)
LinkTexts == {AbsText(PA), RelText(<<"a">>), AbsText(<<"r", "x">>)}
\* the names that are hard links: none; /r/b of /r/a; /r/b and /r/d/a of
\* /r/a; /r/s of the symbolic link /r/l
LinkGroups == {{}, {PB}, {PB, PDA}, {PS}}
WorkDirs == {Root, PD}
\* the file system and the process; the working directory matters to a
\* relative link text alone and is varied only with one; a symbolic link
\* with two names has the text "/r/a"
Envs ==
    {v \in [linked : LinkGroups, text : LinkTexts, cwd : WorkDirs] :
        /\ v.text.abs => v.cwd = Root
        /\ PS \in v.linked => v.text = AbsText(PA)}
\* -exclude: none, `/d$`, `a`, and `(` which does not compile
Excludes == {"", "/d$", "a", "("}
\* -hash: a supported name and an unsupported one
HashAlgos == {"md5", "whirlpool2"}

VARIABLES
    cfg,        \* the flags: poolSize, followSymlinks, hashalgo, exclude
    env,        \* the file system and process: linked, text, cwd
    pc,         \* main: "flags", "abs", "walk", "wait", "exited"
    exitCode,   \* -1 while running, then 0 or 1
    limit,      \* errgroup's semaphore capacity, 0: none
    pos,        \* the walker's index into WalkOrder
    going,      \* the entry whose eg.Go call is in progress, or NoPath
    filecount,
    wpc,        \* per entry: "none", "load", "open", "ok", "failed"
    hardLinks,  \* the sync.Map: inode -> digest string
    out,        \* stdout: a bag of result lines
    diag,       \* stderr: a set of diagnostics
    gerr,       \* errgroup's err: the entry whose worker set it, or NoPath
    cancelled,  \* the group's context has been cancelled
    failures,   \* the entries whose workers returned an error, in order
    visited,    \* the paths walkFn was called for with err == nil
    reads,      \* the files workers have read to the end: <<entry, file>>
    faults      \* system calls that have failed so far

vars == <<cfg, env, pc, exitCode, limit, pos, going, filecount, wpc, hardLinks,
          out, diag, gerr, cancelled, failures, visited, reads, faults>>


\* ---- file-system metadata ----------------------------------------------
\* the file type in the os.FileInfo of Lstat; /r/s is a socket, or a second
\* name of the symbolic link /r/l
Kind(p) ==
    CASE p \in {Root, PD} -> "dir"
      [] p \in {PA, PB, PDA} -> "regular"
      [] p = PL -> "symlink"
      [] OTHER -> IF PS \in env.linked THEN "symlink" ELSE "socket"

\* stat.Ino of the entry at p (Lstat: a symbolic link has its own inode)
Ino(p) ==
    CASE p = PA -> 1
      [] p = PB -> IF PB \in env.linked THEN 1 ELSE 2
      [] p = PDA -> IF PDA \in env.linked THEN 1 ELSE 3
      [] p = PL -> 4
      [] p = PS -> IF PS \in env.linked THEN 4 ELSE 5
      [] p = Root -> 6
      [] OTHER -> 7

\* stat.Nlink of a non-directory: the number of its names
Nlink(p) == Cardinality({q \in Paths : Ino(q) = Ino(p)})

\* the bytes of the file with inode i; /r/a and /r/b hold the same bytes even
\* when they are two files
Data(i) == IF i = 3 THEN "yo" ELSE "hi"

\* info.Sys().(*syscall.Stat_t): holds for every FileInfo that os.Lstat
\* returns on the platforms where the program builds
inodeOk == TRUE

\* ---- -exclude ----------------------------------------------------------
\* regexp.Compile
Compiles(pat) == pat # "("

\* excludePattern.MatchString(path), an unanchored search:
\*   `/d$` the path ends in the component d;  `a` the letter a occurs in it
MatchString(pat, p) ==
    CASE pat = "/d$" -> Len(p) >= 2 /\ p[Len(p)] = "d"
      [] pat = "a" -> \E i \in 1..Len(p) : p[i] = "a"
      [] OTHER -> FALSE

Excluded(p) == cfg.exclude # "" /\ MatchString(cfg.exclude, p)

\* ---- hashing -----------------------------------------------------------
\* the switch on hashalgo: an unsupported name falls back to sha256
Supported == {"crc32", "crc64", "md5", "sha1", "sha256", "sha512", "sha3-512",
              "sha3-256", "blake2b-512", "blake2b-256", "whirlpool"}
\* a switch that ignores -hash
HasherDefault(algo) == "sha256"

Hasher(algo) == IF algo \in Supported THEN algo ELSE "sha256"

\* hasher.Sum(nil) after io.Copy: the digest bytes (their first two; sha256
\* of "hi" is 44d8..., md5 of "hi" is 49f6...).  Distinct contents and distinct
\* algorithms give distinct digests.
Sum(h, data) ==
    CASE h = "sha256" /\ data = "hi" -> <<68, 216>>
      [] h = "sha256" /\ data = "yo" -> <<10, 95>>
      [] h = "md5" /\ data = "hi" -> <<73, 246>>
      [] OTHER -> <<106, 7>>

HexDigits == <<"0", "1", "2", "3", "4", "5", "6", "7", "8", "9",
               "a", "b", "c", "d", "e", "f">>
\* fmt's %x of a byte slice: two lowercase digits per byte
Hex(b) ==
    [i \in 1..(2 * Len(b)) |->
        IF i % 2 = 1 THEN HexDigits[(b[(i + 1) \div 2] \div 16) + 1]
                     ELSE HexDigits[(b[i \div 2] % 16) + 1]]

\* ---- opening a path ----------------------------------------------------
\* the file a path string names for os.Open: a relative one is taken from the
\* working directory
OpenPath(text) == IF text.abs THEN text.comps ELSE env.cwd \o text.comps

\* the kernel follows a final symbolic link, relative to the link's directory
Follow(p) ==
    IF p \in Paths /\ Kind(p) = "symlink"
    THEN (IF env.text.abs THEN env.text.comps ELSE Parent(p) \o env.text.comps)
    ELSE p

\* os.Open + io.Copy of a path string: a missing file or a socket fails to
\* open, a directory fails to read
ReadFile(text) ==
    LET f == Follow(OpenPath(text))
    IN  IF f \in Paths /\ Kind(f) = "regular"
        THEN [ok |-> TRUE, file |-> f, data |-> Data(Ino(f))]
        ELSE [ok |-> FALSE, file |-> NoPath, data |-> ""]

\* the path argument of the worker submitted for entry e: the walked path of
\* a regular file, the link text of a symbolic link
WorkerPath(e) == IF Kind(e) = "symlink" THEN env.text ELSE AbsText(e)

\* ---- errgroup ----------------------------------------------------------
Running == {e \in Paths : wpc[e] \in {"load", "open"}}
Submitted == {e \in Paths : wpc[e] # "none"}

\* a semaphore one token too large
CanStartOneMore == limit = 0 \/ Cardinality(Running) <= limit

\* a semaphore one token too small
CanStartOneLess == limit = 0 \/ Cardinality(Running) + 1 < limit

\* eg.Go: with a limit set, blocks until a token fits in the semaphore
CanStart == limit = 0 \/ Cardinality(Running) < limit

Line(e, text, digest, marker) ==
    [ent |-> e, path |-> text, digest |-> digest, marker |-> marker]
Diag(kind, p) == [kind |-> kind, path |-> p]

\* the values the state takes
TypeOK ==
    /\ cfg \in [poolSize : 0..MaxPoolSize, followSymlinks : BOOLEAN,
                hashalgo : HashAlgos, exclude : Excludes]
    /\ env \in Envs
    /\ pc \in {"flags", "abs", "walk", "wait", "exited"}
    /\ exitCode \in {-1, 0, 1}
    /\ limit \in 0..MaxPoolSize
    /\ pos \in 1..(Len(WalkOrder) + 1)
    /\ going \in Paths \cup {NoPath}
    /\ filecount \in 0..Len(WalkOrder)
    /\ wpc \in [Paths -> {"none", "load", "open", "ok", "failed"}]
    /\ DOMAIN hardLinks \subseteq {Ino(p) : p \in Paths}
    /\ IsABag(out)
    /\ gerr \in Paths \cup {NoPath}
    /\ cancelled \in BOOLEAN
    /\ failures \in Seq(Paths)
    /\ visited \subseteq Paths
    /\ reads \subseteq Paths \X Paths
    /\ faults \in 0..MaxFaults

Init ==
    /\ cfg \in [poolSize : 0..MaxPoolSize, followSymlinks : BOOLEAN,
                hashalgo : HashAlgos, exclude : Excludes]
    /\ env \in Envs
    /\ pc = "flags"
    /\ exitCode = -1
    /\ limit = 0
    /\ pos = 1
    /\ going = NoPath
    /\ filecount = 0
    /\ wpc = [e \in Paths |-> "none"]
    /\ hardLinks = <<>>
    /\ out = EmptyBag
    /\ diag = {}
    /\ gerr = NoPath
    /\ cancelled = FALSE
    /\ failures = <<>>
    /\ visited = {}
    /\ reads = {}
    /\ faults = 0

\* ---- main --------------------------------------------------------------
\* flag.Parse, regexp.Compile, errgroup.WithContext, SetLimit
MainFlags ==
    /\ pc = "flags"
    /\ IF cfg.exclude # "" /\ ~Compiles(cfg.exclude)
       THEN /\ diag' = diag \cup {Diag("invalid exclude pattern", NoPath)}
            /\ exitCode' = 1
            /\ pc' = "exited"
            /\ UNCHANGED limit
       ELSE /\ limit' = (IF cfg.poolSize > 0 THEN cfg.poolSize ELSE 0)
            /\ pc' = "abs"
            /\ UNCHANGED <<diag, exitCode>>
    /\ UNCHANGED <<cfg, env, pos, going, filecount, wpc, hardLinks, out, gerr,
                   cancelled, failures, visited, reads, faults>>

\* filepath.Abs(filepath.Clean(*dir)): fails when the working directory
\* cannot be read
MainAbs ==
    /\ pc = "abs"
    /\ \E fail \in BOOLEAN :
        /\ fail => faults < MaxFaults
        /\ IF fail
           THEN /\ diag' = diag \cup {Diag("Error", NoPath)}
                /\ exitCode' = 1
                /\ pc' = "exited"
                /\ faults' = faults + 1
           ELSE /\ pc' = "walk"
                /\ UNCHANGED <<diag, exitCode, faults>>
    /\ UNCHANGED <<cfg, env, limit, pos, going, filecount, wpc, hardLinks, out,
                   gerr, cancelled, failures, visited, reads>>

\* ---- walkDirectory: the walkFn of filepath.Walk -------------------------
Walking == pc = "walk" /\ going = NoPath /\ pos <= Len(WalkOrder)
Cur == WalkOrder[pos]

\* the index after the subtree of WalkOrder[i]: where Walk goes on when it
\* does not descend
SkipTree(i) ==
    LET later == {j \in (i + 1)..Len(WalkOrder) : ~IsPrefix(WalkOrder[i], WalkOrder[j])}
    IN  IF later = {} THEN Len(WalkOrder) + 1
        ELSE CHOOSE j \in later : \A k \in later : j <= k

\* a walkFn that returns nil for every directory
SkipsNoDir(p) == FALSE

\* what walkFn answers for a directory: SkipDir when the pattern matches it
SkipsDir(p) == Excluded(p)

\* a walkFn that hands the error back: filepath.Walk stops there
WalkErrAborts ==
    /\ Walking
    /\ faults < MaxFaults
    /\ faults' = faults + 1
    /\ diag' = diag \cup {Diag("unable to walk", Cur)}
    /\ pos' = Len(WalkOrder) + 1
    /\ UNCHANGED <<cfg, env, pc, exitCode, limit, going, filecount, wpc,
                   hardLinks, out, gerr, cancelled, failures, visited, reads>>

\* Lstat or the directory listing failed: walkFn is called with err != nil,
\* logs, returns nil; Walk does not descend
WalkErr ==
    /\ Walking
    /\ faults < MaxFaults
    /\ faults' = faults + 1
    /\ diag' = diag \cup {Diag("unable to walk", Cur)}
    /\ pos' = SkipTree(pos)
    /\ UNCHANGED <<cfg, env, pc, exitCode, limit, going, filecount, wpc,
                   hardLinks, out, gerr, cancelled, failures, visited, reads>>

\* info.IsDir(): SkipDir for an excluded directory, nil otherwise
WalkDir ==
    /\ Walking
    /\ Kind(Cur) = "dir"
    /\ visited' = visited \cup {Cur}
    /\ pos' = (IF SkipsDir(Cur) THEN SkipTree(pos) ELSE pos + 1)
    /\ UNCHANGED <<cfg, env, pc, exitCode, limit, going, filecount, wpc,
                   hardLinks, out, diag, gerr, cancelled, failures, reads, faults>>

\* a non-directory the pattern matches: return nil
WalkExcluded ==
    /\ Walking
    /\ Kind(Cur) # "dir"
    /\ Excluded(Cur)
    /\ visited' = visited \cup {Cur}
    /\ pos' = pos + 1
    /\ UNCHANGED <<cfg, env, pc, exitCode, limit, going, filecount, wpc,
                   hardLinks, out, diag, gerr, cancelled, failures, reads, faults>>

\* info.Mode().IsRegular(): filecount++ and eg.Go, which may block
WalkRegular ==
    /\ Walking
    /\ Kind(Cur) = "regular"
    /\ ~Excluded(Cur)
    /\ visited' = visited \cup {Cur}
    /\ filecount' = filecount + 1
    /\ going' = Cur
    /\ UNCHANGED <<cfg, env, pc, exitCode, limit, pos, wpc, hardLinks, out,
                   diag, gerr, cancelled, failures, reads, faults>>

\* a followSymlinks branch that does not test isSymlink: whatever checkSymlink
\* looked at without error is counted and submitted
WalkFollowAll ==
    /\ Walking
    /\ Kind(Cur) \notin {"dir", "regular"}
    /\ ~Excluded(Cur)
    /\ cfg.followSymlinks
    /\ visited' = visited \cup {Cur}
    /\ \E fail \in BOOLEAN :
        /\ fail => faults < MaxFaults
        /\ IF fail
           THEN /\ faults' = faults + 1
                /\ diag' = diag \cup {Diag("error reading symlink", Cur)}
                /\ pos' = pos + 1
                /\ UNCHANGED <<filecount, going>>
           ELSE /\ filecount' = filecount + 1
                /\ going' = Cur
                /\ UNCHANGED <<faults, diag, pos>>
    /\ UNCHANGED <<cfg, env, pc, exitCode, limit, wpc, hardLinks, out, gerr,
                   cancelled, failures, reads>>

\* followSymlinks: checkSymlink (Lstat, then Readlink for a symbolic link);
\* an error is logged; a symbolic link is counted and submitted with its link
\* text; any other file is passed over in silence
WalkFollow ==
    /\ Walking
    /\ Kind(Cur) \notin {"dir", "regular"}
    /\ ~Excluded(Cur)
    /\ cfg.followSymlinks
    /\ visited' = visited \cup {Cur}
    /\ \E fail \in BOOLEAN :
        /\ fail => faults < MaxFaults
        /\ IF fail
           THEN /\ faults' = faults + 1
                /\ diag' = diag \cup {Diag("error reading symlink", Cur)}
                /\ pos' = pos + 1
                /\ UNCHANGED <<filecount, going>>
           ELSE IF Kind(Cur) = "symlink"
           THEN /\ filecount' = filecount + 1
                /\ going' = Cur
                /\ UNCHANGED <<faults, diag, pos>>
           ELSE /\ pos' = pos + 1
                /\ UNCHANGED <<faults, diag, filecount, going>>
    /\ UNCHANGED <<cfg, env, pc, exitCode, limit, wpc, hardLinks, out, gerr,
                   cancelled, failures, reads>>

\* not followSymlinks: every non-regular file is reported as skipped
WalkSkip ==
    /\ Walking
    /\ Kind(Cur) \notin {"dir", "regular"}
    /\ ~Excluded(Cur)
    /\ ~cfg.followSymlinks
    /\ visited' = visited \cup {Cur}
    /\ diag' = diag \cup {Diag("skipping non-regular file", Cur)}
    /\ pos' = pos + 1
    /\ UNCHANGED <<cfg, env, pc, exitCode, limit, going, filecount, wpc,
                   hardLinks, out, gerr, cancelled, failures, reads, faults>>

\* eg.Go gets its token and starts the goroutine; walkFn returns nil
Go ==
    /\ pc = "walk"
    /\ going # NoPath
    /\ CanStart
    /\ wpc' = [wpc EXCEPT ![going] = "load"]
    /\ going' = NoPath
    /\ pos' = pos + 1
    /\ UNCHANGED <<cfg, env, pc, exitCode, limit, filecount, hardLinks, out,
                   diag, gerr, cancelled, failures, visited, reads, faults>>

\* filepath.Walk has returned: walkDirectory returns filecount
WalkReturn ==
    /\ pc = "walk"
    /\ going = NoPath
    /\ pos > Len(WalkOrder)
    /\ pc' = "wait"
    /\ UNCHANGED <<cfg, env, exitCode, limit, pos, going, filecount, wpc,
                   hardLinks, out, diag, gerr, cancelled, failures, visited,
                   reads, faults>>

\* ---- worker ------------------------------------------------------------
\* a group that keeps the last error instead of the first
ReturnedLastWins(e, failed) ==
    /\ wpc' = [wpc EXCEPT ![e] = IF failed THEN "failed" ELSE "ok"]
    /\ IF failed
       THEN /\ failures' = Append(failures, e)
            /\ gerr' = e
            /\ cancelled' = TRUE
       ELSE UNCHANGED <<failures, gerr, cancelled>>

\* the goroutine of eg.Go after f returns: errOnce keeps the first error and
\* cancels the context; done() gives the token back
Returned(e, failed) ==
    /\ wpc' = [wpc EXCEPT ![e] = IF failed THEN "failed" ELSE "ok"]
    /\ IF failed
       THEN /\ failures' = Append(failures, e)
            /\ gerr' = (IF gerr = NoPath THEN e ELSE gerr)
            /\ cancelled' = TRUE
       ELSE UNCHANGED <<failures, gerr, cancelled>>

\* a lookup that never finds anything
CacheNeverHits(e) == FALSE

\* hardLinks.Load(inode)
CacheHit(e) == Ino(e) \in DOMAIN hardLinks

\* a lookup whose hit prints the * line and then goes on to hash the file
WorkerLoadNoReturn(e) ==
    /\ wpc[e] = "load"
    /\ wpc' = [wpc EXCEPT ![e] = "open"]
    /\ out' = (IF inodeOk /\ CacheHit(e)
               THEN out (+) SetToBag({Line(e, WorkerPath(e), hardLinks[Ino(e)], "*")})
               ELSE out)
    /\ diag' = (IF cfg.hashalgo \in Supported THEN diag
                ELSE diag \cup {Diag("unsupported hash algorithm", e)})
    /\ UNCHANGED <<cfg, env, pc, exitCode, limit, pos, going, filecount,
                   hardLinks, visited, reads, faults, failures, gerr, cancelled>>

\* a lookup under the inode of the file the path argument names (os.Stat of
\* path) instead of the inode in info
WorkerLoadByTarget(e) ==
    LET t == ReadFile(WorkerPath(e)).file
        k == IF t = NoPath THEN Ino(e) ELSE Ino(t)
    IN  /\ wpc[e] = "load"
        /\ IF inodeOk /\ k \in DOMAIN hardLinks
           THEN /\ out' = out (+) SetToBag({Line(e, WorkerPath(e), hardLinks[k], "*")})
                /\ Returned(e, FALSE)
                /\ UNCHANGED diag
           ELSE /\ wpc' = [wpc EXCEPT ![e] = "open"]
                /\ diag' = (IF cfg.hashalgo \in Supported THEN diag
                            ELSE diag \cup {Diag("unsupported hash algorithm", e)})
                /\ UNCHANGED <<out, failures, gerr, cancelled>>
        /\ UNCHANGED <<cfg, env, pc, exitCode, limit, pos, going, filecount,
                       hardLinks, visited, reads, faults>>

\* the lookup: on a hit print the cached digest with * and return nil; on a
\* miss pick the hasher, warning of an unsupported name
WorkerLoad(e) ==
    /\ wpc[e] = "load"
    /\ IF inodeOk /\ CacheHit(e)
       THEN /\ out' = out (+) SetToBag({Line(e, WorkerPath(e), hardLinks[Ino(e)], "*")})
            /\ Returned(e, FALSE)
            /\ UNCHANGED diag
       ELSE /\ wpc' = [wpc EXCEPT ![e] = "open"]
            /\ diag' = (IF cfg.hashalgo \in Supported THEN diag
                        ELSE diag \cup {Diag("unsupported hash algorithm", e)})
            /\ UNCHANGED <<out, failures, gerr, cancelled>>
    /\ UNCHANGED <<cfg, env, pc, exitCode, limit, pos, going, filecount,
                   hardLinks, visited, reads, faults>>

\* stat.Nlink is not looked at: every digest is stored
StoresAlways(e) == inodeOk

\* stat.Nlink > 1
Stores(e) == inodeOk /\ Nlink(e) > 1

\* a store that drops the digest's last digit
StoreCut(e, h) ==
    [i \in DOMAIN hardLinks \cup {Ino(e)} |->
        IF i = Ino(e) THEN SubSeq(h, 1, Len(h) - 1) ELSE hardLinks[i]]

\* hardLinks.Store(inode, fmt.Sprintf("%x", hash))
Store(e, h) ==
    [i \in DOMAIN hardLinks \cup {Ino(e)} |-> IF i = Ino(e) THEN h ELSE hardLinks[i]]

\* a worker that stores what it has hashed before it looks at the error of
\* os.Open or io.Copy
WorkerHashStoresEarly(e) ==
    LET r == ReadFile(WorkerPath(e))
        hash == Sum(Hasher(cfg.hashalgo), r.data)
    IN  /\ wpc[e] = "open"
        /\ hardLinks' = (IF Stores(e) THEN Store(e, Hex(hash)) ELSE hardLinks)
        /\ \E fail \in BOOLEAN :
            /\ fail => faults < MaxFaults /\ r.ok
            /\ IF fail \/ ~r.ok
               THEN /\ Returned(e, TRUE)
                    /\ faults' = (IF fail THEN faults + 1 ELSE faults)
                    /\ UNCHANGED <<reads, out>>
               ELSE /\ reads' = reads \cup {<<e, r.file>>}
                    /\ out' = out (+) SetToBag({Line(e, WorkerPath(e), Hex(hash), "-")})
                    /\ Returned(e, FALSE)
                    /\ UNCHANGED faults
        /\ UNCHANGED <<cfg, env, pc, exitCode, limit, pos, going, filecount,
                       diag, visited>>

\* os.Open and io.Copy, whose error is returned; then hasher.Sum, the store
\* for a file with several names, the - line, return nil.  Between the lookup
\* and the store the worker touches nothing shared, so this is one step.
WorkerHash(e) ==
    LET r == ReadFile(WorkerPath(e))
        hash == Sum(Hasher(cfg.hashalgo), r.data)
    IN  /\ wpc[e] = "open"
        /\ \E fail \in BOOLEAN :
            /\ fail => faults < MaxFaults /\ r.ok
            /\ IF fail \/ ~r.ok
               THEN /\ Returned(e, TRUE)
                    /\ faults' = (IF fail THEN faults + 1 ELSE faults)
                    /\ UNCHANGED <<reads, hardLinks, out>>
               ELSE /\ reads' = reads \cup {<<e, r.file>>}
                    /\ hardLinks' = (IF Stores(e) THEN Store(e, Hex(hash)) ELSE hardLinks)
                    /\ out' = out (+) SetToBag({Line(e, WorkerPath(e), Hex(hash), "-")})
                    /\ Returned(e, FALSE)
                    /\ UNCHANGED faults
        /\ UNCHANGED <<cfg, env, pc, exitCode, limit, pos, going, filecount,
                       diag, visited>>

\* ---- main, after the walk ----------------------------------------------
\* a main that drops the error of eg.Wait
MainWaitDropsErr ==
    /\ pc = "wait"
    /\ Running = {}
    /\ pc' = "exited"
    /\ diag' = diag \cup {[kind |-> "Files processed", path |-> NoPath, n |-> filecount]}
    /\ exitCode' = 0
    /\ UNCHANGED <<cfg, env, limit, pos, going, filecount, wpc, hardLinks, out,
                   gerr, cancelled, failures, visited, reads, faults>>

\* an eg.Wait that does not wait for the goroutines
MainWaitEarly ==
    /\ pc = "wait"
    /\ pc' = "exited"
    /\ IF gerr # NoPath
       THEN /\ diag' = diag \cup {Diag("Error", gerr)}
            /\ exitCode' = 1
       ELSE /\ diag' = diag \cup {[kind |-> "Files processed", path |-> NoPath, n |-> filecount]}
            /\ exitCode' = 0
    /\ UNCHANGED <<cfg, env, limit, pos, going, filecount, wpc, hardLinks, out,
                   gerr, cancelled, failures, visited, reads, faults>>

\* eg.Wait returns when every goroutine is done, with the group's err
MainWait ==
    /\ pc = "wait"
    /\ Running = {}
    /\ pc' = "exited"
    /\ IF gerr # NoPath
       THEN /\ diag' = diag \cup {Diag("Error", gerr)}
            /\ exitCode' = 1
       ELSE /\ diag' = diag \cup {[kind |-> "Files processed", path |-> NoPath, n |-> filecount]}
            /\ exitCode' = 0
    /\ UNCHANGED <<cfg, env, limit, pos, going, filecount, wpc, hardLinks, out,
                   gerr, cancelled, failures, visited, reads, faults>>

Next ==
    \/ MainFlags
    \/ MainAbs
    \/ WalkErr
    \/ WalkDir
    \/ WalkExcluded
    \/ WalkRegular
    \/ WalkFollow
    \/ WalkSkip
    \/ Go
    \/ WalkReturn
    \/ \E e \in Paths : WorkerLoad(e)
    \/ \E e \in Paths : WorkerHash(e)
    \/ MainWait

Spec == Init /\ [][Next]_vars

\* the Go scheduler runs every runnable goroutine and every system call
\* returns: while some thread can take a step, a step is taken.  (Every step
\* moves a thread forward, so this is all that fairness to each thread adds.)
Fairness == WF_vars(Next)

\* termination does not hang on the digests: one algorithm, /r/a and /r/b
\* hard links
InitFair == Init /\ cfg.hashalgo = "md5" /\ env.linked = {PB}

FairSpec == InitFair /\ [][Next]_vars /\ Fairness

\* ======================================================================
\* Properties
\* ======================================================================
RECURSIVE Copies(_)
\* the number of lines of stdout among the distinct lines S
Copies(S) ==
    IF S = {} THEN 0
    ELSE LET l == CHOOSE x \in S : TRUE IN out[l] + Copies(S \ {l})

LinesOf(e) == {l \in DOMAIN out : l.ent = e}
LinesAt(text) == {l \in DOMAIN out : l.path = text}

\* the hexadecimal digest the selected algorithm gives the contents, written
\* out (an unsupported name selects sha256)
RefDigest(algo, data) ==
    CASE algo = "md5" /\ data = "hi" -> <<"4", "9", "f", "6">>
      [] algo = "md5" /\ data = "yo" -> <<"6", "a", "0", "7">>
      [] algo # "md5" /\ data = "hi" -> <<"4", "4", "d", "8">>
      [] OTHER -> <<"0", "a", "5", "f">>

WalkFailed(p) == Diag("unable to walk", p) \in diag
Ancestors(p) == {d \in Paths : IsPrefix(d, p) /\ d # p}
\* the walk gets to p: no directory above it is excluded or failed to list
Reached(p) == \A d \in Ancestors(p) : ~Excluded(d) /\ ~WalkFailed(d)
\* main got through the walk and eg.Wait
Completed == pc = "exited" /\ pos > Len(WalkOrder)

\* C1: with a concurrency limit N > 0 the number of workers that have been
\* started and have not returned is at most N in every reachable state.
C1_LimitRespected == cfg.poolSize > 0 => Cardinality(Running) <= cfg.poolSize

\* the pool is full and the walker is blocked in eg.Go
C1_Witness == cfg.poolSize = 2 /\ Cardinality(Running) = 2 /\ going # NoPath

\* the paths of the tree that are hard links of one another
Linked(p, q) ==
    /\ p # q
    /\ Kind(p) = "regular" /\ Kind(q) = "regular"
    /\ Ino(p) = Ino(q)
    /\ Nlink(p) > 1

\* C2 as claimed, for an inode with exactly two paths: once both workers have
\* returned without error, one path has a - line, the other a * line, and the
\* two digests agree.
C2_OneComputedOneReused ==
    \A p, q \in Paths :
        Linked(p, q) /\ Nlink(p) = 2 /\ wpc[p] = "ok" /\ wpc[q] = "ok" =>
            \E lp \in LinesOf(p), lq \in LinesOf(q) :
                /\ {lp.marker, lq.marker} = {"-", "*"}
                /\ lp.digest = lq.digest

\* C2 amended: every path of a shared inode whose worker returned without
\* error has exactly one line; at least one path of the inode has a - line
\* (two workers that both looked up before either stored both have one);
\* the lines of all paths of the inode carry the same digest.
C2_SomeComputedSameDigest ==
    \A p \in Paths :
        Kind(p) = "regular" /\ Nlink(p) > 1 /\ wpc[p] = "ok" =>
            /\ Copies(LinesOf(p)) = 1
            /\ \E q \in Paths : Ino(q) = Ino(p) /\ wpc[q] = "ok"
                                /\ \E l \in LinesOf(q) : l.marker = "-"
            /\ \A q \in Paths : Ino(q) = Ino(p) =>
                   \A lp \in LinesOf(p), lq \in LinesOf(q) : lp.digest = lq.digest

\* two hard links, one computed and then one reused
C2_Witness ==
    /\ Linked(PA, PB) /\ wpc[PA] = "ok" /\ wpc[PB] = "ok"
    /\ \E la \in LinesOf(PA), lb \in LinesOf(PB) : la.marker = "-" /\ lb.marker = "*"

\* the file of C3: regular, one name, no pattern given, visited, worker not failed
C3_Case(f) ==
    /\ Kind(f) = "regular" /\ Nlink(f) <= 1
    /\ cfg.exclude = ""
    /\ Completed
    /\ Reached(f) /\ ~WalkFailed(f)
    /\ wpc[f] # "failed"

\* C3 as claimed: the completed run has exactly one line for F's path, it is a
\* - line with the digest of F's contents, and no * line names F.
C3_OneLinePerFile ==
    \A f \in Paths :
        C3_Case(f) =>
            /\ Copies(LinesAt(AbsText(f))) = 1
            /\ \A l \in LinesAt(AbsText(f)) :
                   l.marker = "-" /\ l.digest = RefDigest(cfg.hashalgo, Data(Ino(f)))

\* C3 amended: F's own worker emits exactly one line, a - line with the digest
\* of F's contents, never a * line; it is the only line naming F's path unless
\* a followed symbolic link has F's path as its link text.
C3_OneLineFromOwnWorker ==
    \A f \in Paths :
        C3_Case(f) =>
            /\ Copies(LinesOf(f)) = 1
            /\ \A l \in LinesOf(f) :
                   /\ l.path = AbsText(f)
                   /\ l.marker = "-"
                   /\ l.digest = RefDigest(cfg.hashalgo, Data(Ino(f)))
            /\ ~(cfg.followSymlinks /\ env.text = AbsText(f)) =>
                   LinesAt(AbsText(f)) = LinesOf(f)

\* a completed run over unlinked files under md5
C3_Witness ==
    /\ C3_Case(PA) /\ C3_Case(PDA)
    /\ cfg.hashalgo = "md5"
    /\ Copies(LinesOf(PA)) = 1 /\ Copies(LinesOf(PDA)) = 1

Eligible(e) ==
    /\ Reached(e) /\ ~WalkFailed(e) /\ ~Excluded(e)
    /\ \/ Kind(e) = "regular"
       \/ /\ Kind(e) = "symlink" /\ cfg.followSymlinks
          /\ Diag("error reading symlink", e) \notin diag

\* C5: a worker's error cancels nothing: when main is through eg.Wait, every
\* entry the walk submits has been submitted, also after the failure, every
\* submitted worker has returned, and the error main got from eg.Wait is that
\* of the first worker that failed.
C5_FirstErrorNoCancel ==
    Completed =>
        /\ Submitted = {e \in Paths : Eligible(e)}
        /\ \A e \in Submitted : wpc[e] \in {"ok", "failed"}
        /\ {e \in Paths : wpc[e] = "failed"} = {failures[i] : i \in DOMAIN failures}
        /\ failures # <<>> =>
               /\ gerr = Head(failures)
               /\ Diag("Error", gerr) \in diag
               /\ exitCode = 1

\* /r/a failed first, /r/l second; /r/b and /r/d/a, submitted after the
\* failure of /r/a, were hashed
C5_Witness ==
    /\ Completed
    /\ cfg.poolSize = 1
    /\ failures = <<PA, PL>>
    /\ wpc[PB] = "ok" /\ wpc[PDA] = "ok"

BadPattern == cfg.exclude # "" /\ ~Compiles(cfg.exclude)
Summary == [kind |-> "Files processed", path |-> NoPath, n |-> filecount]

\* C6 as claimed: the process fails exactly when the pattern does not compile
\* or a worker returned an error; otherwise it succeeds, the count printed.
C6_FailsIffPatternOrWorker ==
    pc = "exited" =>
        /\ exitCode \in {0, 1}
        /\ exitCode = 1 <=> (BadPattern \/ failures # <<>>)
        /\ exitCode = 0 => Summary \in diag

\* filepath.Abs failed
AbsFailed == Diag("Error", NoPath) \in diag

\* C6 amended: the process fails exactly when the pattern does not compile,
\* the root directory cannot be made absolute, or a worker returned an error;
\* otherwise it succeeds, the count printed.
C6_FailsIffPatternAbsOrWorker ==
    pc = "exited" =>
        /\ exitCode \in {0, 1}
        /\ exitCode = 1 <=> (BadPattern \/ AbsFailed \/ failures # <<>>)
        /\ exitCode = 0 => Summary \in diag
        /\ exitCode = 1 => Summary \notin diag

\* a run that fails for a worker's error alone
C6_Witness ==
    /\ Completed /\ exitCode = 1
    /\ ~BadPattern /\ ~AbsFailed
    /\ failures # <<>>

\* C7: a submitted entry whose worker returned without error has exactly one
\* result line, marked - or *; a worker that has not returned so has none.
C7_OneLinePerWorker ==
    \A e \in Paths :
        /\ wpc[e] = "ok" =>
               /\ Copies(LinesOf(e)) = 1
               /\ \A l \in LinesOf(e) : l.marker \in {"-", "*"}
        /\ wpc[e] # "ok" => LinesOf(e) = {}

\* one worker has a * line, another a - line
C7_Witness ==
    /\ wpc[PA] = "ok" /\ wpc[PB] = "ok"
    /\ \E l \in LinesOf(PB) : l.marker = "*"
    /\ \E l \in LinesOf(PA) : l.marker = "-"

\* the worker of e leaves "open": it opens (and reads) its file
Opens(e) == wpc[e] = "open" /\ wpc'[e] # "open"

\* C8 as claimed, for the workers of regular files: no worker opens its file
\* while the file's inode is in the cache.
C8_NoReadOnceCached ==
    [][\A e \in Paths :
          Kind(e) = "regular" /\ Ino(e) \in DOMAIN hardLinks => ~Opens(e)]_vars

\* C8 amended: a worker whose lookup comes after the insertion of its entry's
\* own inode does not open or read the file: it prints the * line and
\* returns.  (A worker whose lookup came before the insertion still reads.)
C8_NoReadAfterHit ==
    [][\A e \in Paths :
          /\ (wpc[e] = "load" /\ Ino(e) \in DOMAIN hardLinks) =>
                 /\ wpc'[e] \in {"load", "ok"}
                 /\ reads' = reads \/ wpc'[e] = "load"
          /\ (\E l \in LinesOf(e)' : l.marker = "*") =>
                 \A f \in Paths : <<e, f>> \notin reads']_vars

\* /r/b found the inode of /r/a in the cache and was not read
C8_Witness ==
    /\ Linked(PA, PB)
    /\ wpc[PB] = "ok"
    /\ <<PA, PA>> \in reads
    /\ \A f \in Paths : <<PB, f>> \notin reads

\* the file a symbolic link names
Target(p) == IF env.text.abs THEN env.text.comps ELSE Parent(p) \o env.text.comps

\* C9: a symbolic link the walk gets to and the pattern does not match:
\* not followed, it is reported as skipped, no worker is submitted and it has
\* no result line; followed, its target a readable regular file, a worker is
\* submitted and its result line carries the digest of the target's contents.
C9_SymlinkPolicy ==
    \A p \in Paths :
        Kind(p) = "symlink" /\ Completed /\ Reached(p) /\ ~Excluded(p) /\ faults = 0 =>
            /\ ~cfg.followSymlinks =>
                   /\ Diag("skipping non-regular file", p) \in diag
                   /\ p \notin Submitted
                   /\ LinesOf(p) = {}
            /\ (cfg.followSymlinks /\ Target(p) \in Paths /\ Kind(Target(p)) = "regular") =>
                   /\ p \in Submitted
                   /\ \E l \in LinesOf(p) :
                          l.digest = RefDigest(cfg.hashalgo, Data(Ino(Target(p))))

\* the pair printed for entry e: the worker's path and the digest of the file
\* os.Open finds there
PairOf(e) ==
    [path |-> WorkerPath(e),
     digest |-> RefDigest(cfg.hashalgo, ReadFile(WorkerPath(e)).data)]
\* the entries that yield a result line when nothing fails
Yielding == {e \in Paths : Eligible(e) /\ ReadFile(WorkerPath(e)).ok}
\* the (path, digest) pairs of stdout, with their multiplicities
Pairs ==
    [pr \in {[path |-> l.path, digest |-> l.digest] : l \in DOMAIN out} |->
        Copies({l \in DOMAIN out : l.path = pr.path /\ l.digest = pr.digest})]

\* C10: the (path, digest) pairs of a complete run without I/O errors are
\* fixed by the tree and the flags other than -poolsize: one pair per
\* submitted entry, whatever the interleaving and the limit.
C10_PairsDeterministic ==
    (Completed /\ faults = 0 /\ failures = <<>>) =>
        Pairs = [pr \in {PairOf(e) : e \in Yielding} |->
                    Cardinality({e \in Yielding : PairOf(e) = pr})]

\* an unlimited run over three hard links and a followed link to /r/a, in
\* which some line was reused
C10_Witness ==
    /\ Completed /\ faults = 0 /\ failures = <<>>
    /\ cfg.poolSize = 0 /\ cfg.followSymlinks
    /\ env.linked = {PB, PDA} /\ env.text = AbsText(PA)
    /\ \E l \in DOMAIN out : l.marker = "*"
    /\ Copies(DOMAIN out) = 4

\* C11: eg.Wait returns, and the count of files processed is printed, only
\* when the walk is over and every submitted worker has returned; the count
\* printed is the number of workers the walk submitted, which the tree, the
\* flags and the failed system calls fix.
C11_CountAfterAllWork ==
    /\ Completed => going = NoPath /\ Running = {}
    /\ \A d \in diag :
           d.kind = "Files processed" =>
               /\ pos > Len(WalkOrder) /\ going = NoPath /\ Running = {}
               /\ d.n = Cardinality(Submitted)
               /\ d.n = Cardinality({e \in Paths : Eligible(e)})

\* the count 4 printed after a run limited to one worker at a time
C11_Witness ==
    /\ Completed /\ exitCode = 0
    /\ cfg.poolSize = 1
    /\ [kind |-> "Files processed", path |-> NoPath, n |-> 4] \in diag
    /\ \A e \in {PA, PB, PDA, PL} : wpc[e] = "ok"

\* the worker of e returns nil having called hardLinks.Store
Writes(e) == wpc[e] = "open" /\ wpc'[e] = "ok" /\ Stores(e)

\* C12: a worker's cache write is an insert-if-absent: no worker writes the
\* key of an inode that is already in the cache, so at most one write per
\* inode takes effect and no entry is overwritten.
C12_InsertIfAbsent ==
    [][\A e \in Paths : Writes(e) => Ino(e) \notin DOMAIN hardLinks]_vars

\* a cache entry, once there, stays and keeps its value
CacheStable ==
    \A i \in DOMAIN hardLinks : i \in DOMAIN hardLinks' /\ hardLinks'[i] = hardLinks[i]

\* C13: every key of the cache is the inode of an entry with several names
\* that some worker read to the end without error, its value is the
\* lowercase hexadecimal digest of the contents that worker read, and an
\* entry is never removed nor its value changed.
C13_CacheSound ==
    [][/\ CacheStable
       /\ \A i \in DOMAIN hardLinks' :
              \E e \in Paths :
                  /\ Ino(e) = i /\ Nlink(e) > 1
                  /\ wpc'[e] = "ok"
                  /\ \E f \in Paths :
                         /\ <<e, f>> \in reads'
                         /\ hardLinks'[i] = RefDigest(cfg.hashalgo, Data(Ino(f)))]_vars

\* the digest of /r/a is in the cache, stored by the worker of /r/b
C13_Witness ==
    /\ Linked(PA, PB)
    /\ cfg.hashalgo = "whirlpool2"
    /\ wpc[PB] = "ok" /\ wpc[PA] \in {"load", "failed"}
    /\ Ino(PA) \in DOMAIN hardLinks
    /\ hardLinks[Ino(PA)] = <<"4", "4", "d", "8">>

\* C14: under fair scheduling every run ends: a walker blocked in eg.Go at a
\* full pool goes on, the process exits, and, unless it exited before the
\* walk, every entry the walk submits has been submitted and every worker
\* has returned by then.
C14_Terminates ==
    /\ (going # NoPath) ~> (going = NoPath)
    /\ <>(/\ pc = "exited"
          /\ going = NoPath
          /\ Running = {}
          /\ (BadPattern \/ AbsFailed \/
              (Completed /\ Submitted = {e \in Paths : Eligible(e)})))

\* the pool of one is full and the walker is blocked in eg.Go
C14_Witness == limit = 1 /\ going # NoPath /\ Cardinality(Running) = 1 /\ ~CanStart

\* the errors met during the walk, as logged
WalkErrors == {d \in diag : d.kind \in {"unable to walk", "error reading symlink"}}

\* C15: an error met during the walk is only logged: the group's error is
\* always that of a failed worker; a run without a failed worker that gets
\* through eg.Wait exits 0 with the count, whatever the walk logged; and once
\* the walk is over every path not below a failed directory, the failed ones
\* apart, has been visited and every entry to submit has been submitted.
C15_WalkErrorsAbsorbed ==
    /\ gerr # NoPath => wpc[gerr] = "failed"
    /\ ~cancelled => failures = <<>>
    /\ (Completed /\ \A e \in Paths : wpc[e] # "failed") =>
           exitCode = 0 /\ Summary \in diag
    /\ (pos > Len(WalkOrder) /\ pc \in {"walk", "wait", "exited"}) =>
           /\ \A p \in Paths : Reached(p) /\ ~WalkFailed(p) => p \in visited
           /\ Submitted = {e \in Paths : Eligible(e)}

\* listing /r/d failed; /r/l, which comes after it, was followed and hashed,
\* and the run succeeded
C15_Witness ==
    /\ Completed /\ exitCode = 0
    /\ WalkErrors = {Diag("unable to walk", PD)}
    /\ PS \in visited
    /\ wpc[PL] = "ok" /\ wpc[PDA] = "none"

\* the entries handed to eg.Go so far, the one whose call is in progress included
Handed == Submitted \cup ({going} \ {NoPath})

\* C16: every entry handed to eg.Go is a regular file, or a symbolic link
\* submitted with -follow set after checkSymlink gave its link text without
\* error; no directory and no other special file is ever handed over, with
\* or without -follow.
C16_OnlyFilesAndResolvedLinks ==
    \A e \in Handed :
        /\ e \in visited
        /\ \/ Kind(e) = "regular"
           \/ /\ Kind(e) = "symlink"
              /\ cfg.followSymlinks
              /\ Diag("error reading symlink", e) \notin diag
              /\ WorkerPath(e) = env.text

\* -follow set: the walk is over, the link /r/l was submitted, the socket
\* /r/s was looked at and passed over
C16_Witness ==
    /\ cfg.followSymlinks
    /\ pos > Len(WalkOrder)
    /\ PL \in Handed /\ PA \in Handed
    /\ PS \in visited /\ PS \notin Handed
    /\ Handed \cap {Root, PD} = {}

\* a step of the worker of the symbolic link e
LinkWorkerStep(e) ==
    Kind(e) = "symlink" /\ wpc[e] \in {"load", "open"} /\ wpc'[e] # wpc[e]

\* C17: the worker of a followed symbolic link looks up and tests the link's
\* own inode and link count: while the link's inode is not in the cache its
\* lookup misses and prints nothing, also when the digest of the file it is
\* about to read is in the cache under that file's inode; when it returns
\* from reading without error it has read the file its link text names and
\* printed one - line with that file's digest; no step of it changes the
\* cache anywhere but under the link's inode, and a link with one name
\* changes it nowhere.
C17_LinkOwnIdentity ==
    [][\A e \in Paths :
          LinkWorkerStep(e) =>
              /\ \A i \in DOMAIN hardLinks \cup DOMAIN hardLinks' :
                     i # Ino(e) =>
                         /\ i \in DOMAIN hardLinks /\ i \in DOMAIN hardLinks'
                         /\ hardLinks'[i] = hardLinks[i]
              /\ Nlink(e) <= 1 => hardLinks' = hardLinks
              /\ (wpc[e] = "load" /\ Ino(e) \notin DOMAIN hardLinks) =>
                     wpc'[e] = "open" /\ out' = out
              /\ (wpc[e] = "open" /\ wpc'[e] = "ok") =>
                     \E f \in Paths :
                         /\ env.text.abs => f = env.text.comps
                         /\ reads' = reads \cup {<<e, f>>}
                         /\ out' = out (+) SetToBag({Line(e, env.text,
                                RefDigest(cfg.hashalgo, Data(Ino(f))), "-")})]_vars

\* /r/a and /r/b are hard links and /r/l names /r/a: /r/a was read and
\* cached, /r/b reused it, and the worker of /r/l read /r/a again and
\* printed a - line
C17_Witness ==
    /\ Linked(PA, PB) /\ env.text = AbsText(PA)
    /\ Ino(PA) \in DOMAIN hardLinks
    /\ wpc[PL] = "ok"
    /\ {<<PA, PA>>, <<PL, PA>>} \subseteq reads
    /\ \E l \in LinesOf(PB) : l.marker = "*"
    /\ \A l \in LinesOf(PL) : l.marker = "-" /\ l.digest = hardLinks[Ino(PA)]
    /\ Ino(PL) \notin DOMAIN hardLinks

\* the place of p in the order of the walk, which is the order of submission
WalkIndex(p) == CHOOSE i \in 1..Len(WalkOrder) : WalkOrder[i] = p

\* C18: with the limit 1, of the entries of one inode with several names,
\* none of whose workers failed, the first submitted has one - line and each
\* later one has one * line, all with the digest of the contents of the file
\* read: it is read once.
C18_SerialReuse ==
    cfg.poolSize = 1 =>
        \A p \in Paths :
            /\ Nlink(p) > 1 /\ wpc[p] = "ok"
            /\ \A q \in Paths : Ino(q) = Ino(p) => wpc[q] # "failed"
            => /\ Copies(LinesOf(p)) = 1
               /\ \A l \in LinesOf(p) :
                      /\ l.digest = RefDigest(cfg.hashalgo, ReadFile(l.path).data)
                      /\ l.marker =
                             (IF \E q \in Submitted :
                                     Ino(q) = Ino(p) /\ WalkIndex(q) < WalkIndex(p)
                              THEN "*" ELSE "-")
               /\ Cardinality({rd \in reads : Ino(rd[1]) = Ino(p)}) = 1

\* three names of one file under the limit 1: /r/a computed, /r/b and /r/d/a
\* reused
C18_Witness ==
    /\ cfg.poolSize = 1 /\ Completed /\ exitCode = 0
    /\ Linked(PA, PB) /\ Linked(PA, PDA)
    /\ \E l \in LinesOf(PA) : l.marker = "-"
    /\ \E l \in LinesOf(PB) : l.marker = "*"
    /\ \E l \in LinesOf(PDA) : l.marker = "*"

\* the worker of e finds the inode of e in the cache and returns
Reuses(e) == wpc[e] = "load" /\ wpc'[e] = "ok"

\* the * line the worker of e prints for the digest of the contents of f
ReusedLine(e, f) ==
    Line(e, WorkerPath(e), RefDigest(cfg.hashalgo, Data(Ino(f))), "*")

\* every inode with a result line has a - line, and the lines of one inode
\* carry one digest
LinesAgree ==
    \A l \in DOMAIN out :
        /\ \E m \in DOMAIN out : Ino(m.ent) = Ino(l.ent) /\ m.marker = "-"
        /\ \A m \in DOMAIN out : Ino(m.ent) = Ino(l.ent) => m.digest = l.digest

\* C19 as claimed: the digest of a * line was stored, before the lookup, by
\* a worker that had read to the end a file with the inode of the line's
\* entry; so every inode with a line has a - line and one digest.
C19_ReusedFromReadOfSameInode ==
    [][/\ \A e \in Paths :
              Reuses(e) =>
                  \E q \in Paths \ {e}, f \in Paths :
                      /\ wpc[q] = "ok" /\ <<q, f>> \in reads
                      /\ Ino(f) = Ino(e)
                      /\ out' = out (+) SetToBag({ReusedLine(e, f)})
       /\ LinesAgree']_vars

\* C19 amended: the digest of a * line was stored, before the lookup, by a
\* worker for an entry with the same inode that had read to the end the file
\* its path argument names, which for a symbolic link with several names is
\* the file the link text names, of another inode; so every inode with a
\* line has a - line and one digest.
C19_ReusedFromWorkerOfSameInode ==
    [][/\ \A e \in Paths :
              Reuses(e) =>
                  \E q \in Paths \ {e}, f \in Paths :
                      /\ wpc[q] = "ok" /\ <<q, f>> \in reads
                      /\ Ino(q) = Ino(e) /\ Nlink(q) > 1
                      /\ Kind(q) = "regular" => f = q
                      /\ out' = out (+) SetToBag({ReusedLine(e, f)})
       /\ LinesAgree']_vars

\* /r/l and /r/s are one symbolic link to /r/a: one of them read /r/a and
\* stored its digest under the link's inode, the other reused it
C19_Witness ==
    /\ Completed /\ exitCode = 0
    /\ Kind(PS) = "symlink" /\ Ino(PS) = Ino(PL)
    /\ (<<PL, PA>> \in reads) # (<<PS, PA>> \in reads)
    /\ \E l \in LinesOf(PL) \cup LinesOf(PS), m \in LinesOf(PL) \cup LinesOf(PS) :
           l.marker = "-" /\ m.marker = "*" /\ l.digest = m.digest
    /\ \E l \in LinesOf(PA) : l.marker = "-"

\* the worker of e returns the error of os.Open or io.Copy
Fails(e) == wpc[e] # "failed" /\ wpc'[e] = "failed"

\* C20: a worker fails only at os.Open or io.Copy, and the step in which it
\* fails prints no line and leaves the cache as it was; the entry of a
\* failed worker has no result line; a worker whose lookup comes when no
\* worker for its inode has returned without error misses and goes on to
\* hash; and a run that exits 0 has printed a count equal to the number of
\* result lines.
C20_FailedWorkerLeavesNothing ==
    [][/\ \A e \in Paths :
              /\ Fails(e) =>
                     /\ wpc[e] = "open"
                     /\ out' = out /\ hardLinks' = hardLinks /\ reads' = reads
              /\ wpc'[e] = "failed" => LinesOf(e)' = {}
              /\ (/\ wpc[e] = "load" /\ wpc'[e] # "load"
                  /\ \A q \in Paths : Ino(q) = Ino(e) => wpc[q] # "ok") =>
                     wpc'[e] = "open" /\ out' = out
       /\ (pc' = "exited" /\ exitCode' = 0) =>
              /\ Summary' \in diag'
              /\ filecount' = Copies(DOMAIN out)']_vars

\* /r/a and /r/b are hard links: the worker of /r/a failed and left nothing,
\* the worker of /r/b, started after it, hashed the file itself
C20_Witness ==
    /\ cfg.poolSize = 1
    /\ Linked(PA, PB) /\ Nlink(PA) = 2
    /\ failures = <<PA>> /\ LinesOf(PA) = {}
    /\ wpc[PB] = "ok" /\ <<PB, PB>> \in reads
    /\ \A l \in LinesOf(PB) : l.marker = "-"
    /\ Copies(LinesOf(PB)) = 1

====
